---- MODULE Spec2Model ----
(***************************************************************************)
(* Model of phpgao/media_tool: the path-resolution pipeline (processImage, *)
(* readExif, matchWxExport, matchRegex), the conflict policy (checkExist,  *)
(* generateNewFileName) and the organize run (mediaTool, processOneFile).  *)
(* The repository holds two revisions of the program: src/main.go ("main") *)
(* and src/unnamed/part_000 ("part"); the variable rev selects which one   *)
(* runs, and every definition that differs between them branches on it.    *)
(* Paths and file names are TLA+ strings, handled character by character.  *)
(***************************************************************************)
EXTENDS Integers, Sequences, FiniteSets, TLC

(* ------------------------------------------------------------------ *)
(* strings: the Go library functions the program calls                 *)
(* ------------------------------------------------------------------ *)

At(s, i) == SubSeq(s, i, i)

DigitChars == "0123456789"

UpperChars == "ABCDEFGHIJKLMNOPQRSTUVWXYZ"

LowerChars == "abcdefghijklmnopqrstuvwxyz"

IsDigit(ch) == \E i \in 1..Len(DigitChars) : At(DigitChars, i) = ch

DigitVal(ch) == (CHOOSE i \in 1..Len(DigitChars) : At(DigitChars, i) = ch) - 1

\* strconv.ParseInt / atoi on a string of decimal digits
RECURSIVE StrToInt(_)
StrToInt(s) ==
    IF Len(s) = 0 THEN 0
    ELSE 10 * StrToInt(SubSeq(s, 1, Len(s) - 1)) + DigitVal(At(s, Len(s)))

\* the zero-padded decimal rendering time.Format uses for "2006" (w = 4) and "01" (w = 2)
RECURSIVE Pad(_, _)
Pad(n, w) ==
    IF w = 0 THEN ""
    ELSE Pad(n \div 10, w - 1) \o At(DigitChars, (n % 10) + 1)

LowerChar(ch) ==
    IF \E i \in 1..Len(UpperChars) : At(UpperChars, i) = ch
    THEN At(LowerChars, CHOOSE i \in 1..Len(UpperChars) : At(UpperChars, i) = ch)
    ELSE ch

\* strings.ToLower
RECURSIVE ToLower(_)
ToLower(s) ==
    IF Len(s) = 0 THEN ""
    ELSE LowerChar(At(s, 1)) \o ToLower(SubSeq(s, 2, Len(s)))

HasSuffix(s, suf) ==
    /\ Len(suf) <= Len(s)
    /\ SubSeq(s, Len(s) - Len(suf) + 1, Len(s)) = suf

HasPrefix(s, pre) ==
    /\ Len(pre) <= Len(s)
    /\ SubSeq(s, 1, Len(pre)) = pre

\* strings.TrimSuffix: s without the suffix, or s itself when it does not end with it
TrimSuffix(s, suf) ==
    IF HasSuffix(s, suf) THEN SubSeq(s, 1, Len(s) - Len(suf)) ELSE s

\* strings.TrimPrefix
TrimPrefix(s, pre) ==
    IF HasPrefix(s, pre) THEN SubSeq(s, Len(pre) + 1, Len(s)) ELSE s

InCutset(ch, cutset) == \E i \in 1..Len(cutset) : At(cutset, i) = ch

\* strings.Trim(s, cutset): s without the leading and trailing characters of cutset
RECURSIVE Trim(_, _)
Trim(s, cutset) ==
    IF Len(s) > 0 /\ InCutset(At(s, 1), cutset)
    THEN Trim(SubSeq(s, 2, Len(s)), cutset)
    ELSE IF Len(s) > 0 /\ InCutset(At(s, Len(s)), cutset)
    THEN Trim(SubSeq(s, 1, Len(s) - 1), cutset)
    ELSE s

\* strings.TrimSpace
TrimSpace(s) == Trim(s, " \t\n\r")

\* index of the last path separator of p, 0 when there is none
LastSlash(p) ==
    LET I == {i \in 1..Len(p) : At(p, i) = "/"}
    IN  IF I = {} THEN 0 ELSE CHOOSE i \in I : \A j \in I : j <= i

\* filepath.Base: the last element of the path ("." for the empty path)
Base(p) ==
    IF Len(p) = 0 THEN "."
    ELSE SubSeq(p, LastSlash(p) + 1, Len(p))

\* filepath.Ext: the suffix beginning at the final dot of the last element, "" if none
Ext(p) ==
    LET I == {i \in (LastSlash(p) + 1)..Len(p) : At(p, i) = "."}
    IN  IF I = {} THEN ""
        ELSE SubSeq(p, CHOOSE i \in I : \A j \in I : j <= i, Len(p))

\* filepath.Dir for a cleaned path
Dir(p) ==
    IF LastSlash(p) = 0 THEN "."
    ELSE SubSeq(p, 1, LastSlash(p) - 1)

\* filepath.Clean on the paths Join builds here: a leading "./" is dropped.  The
\* elements joined hold no "..", no empty element and no trailing separator.
RECURSIVE Clean(_)
Clean(p) ==
    IF HasPrefix(p, "./") THEN Clean(SubSeq(p, 3, Len(p))) ELSE p

\* filepath.Join: the non-empty elements separated by "/", cleaned; "" when all are empty
RECURSIVE JoinRaw(_)
JoinRaw(elems) ==
    IF Len(elems) = 0 THEN ""
    ELSE LET rest == JoinRaw(Tail(elems))
         IN  IF Head(elems) = "" THEN rest
             ELSE IF rest = "" THEN Head(elems)
             ELSE Head(elems) \o "/" \o rest

Join(elems) == Clean(JoinRaw(elems))

(* ------------------------------------------------------------------ *)
(* time: time.Parse with a fixed layout, time.Unix, Time.Format         *)
(* ------------------------------------------------------------------ *)

\* The layouts of the program, written with one letter per digit of a field
\* (Y year, M month, D day, h hour, m minute, s second); other characters are literal.
layout == "YYYY:MM:DD hh:mm:ss"

FieldChars == "YMDhms"

IsField(ch) == \E i \in 1..Len(FieldChars) : At(FieldChars, i) = ch

\* the digits of value that stand under the letter f of the layout
RECURSIVE Field(_, _, _)
Field(lay, value, f) ==
    IF Len(lay) = 0 THEN ""
    ELSE (IF At(lay, 1) = f THEN At(value, 1) ELSE "")
         \o Field(SubSeq(lay, 2, Len(lay)), SubSeq(value, 2, Len(value)), f)

\* value has the shape of the layout: same length, digits under the fields, the
\* literals in place
ShapeOK(lay, value) ==
    /\ Len(value) = Len(lay)
    /\ \A i \in 1..Len(lay) :
          IF IsField(At(lay, i)) THEN IsDigit(At(value, i))
          ELSE At(value, i) = At(lay, i)

IsLeap(yr) == (yr % 4 = 0) /\ ((yr % 100 # 0) \/ (yr % 400 = 0))

DaysIn(mo, yr) ==
    IF mo = 2 THEN (IF IsLeap(yr) THEN 29 ELSE 28)
    ELSE IF mo \in {4, 6, 9, 11} THEN 30 ELSE 31

\* time.Parse's error result: nil exactly when the value has the layout's shape and
\* every field is in range (month 1-12, day within the month, hour < 24, ...)
ParseOK(lay, value) ==
    /\ ShapeOK(lay, value)
    /\ LET yr == StrToInt(Field(lay, value, "Y"))
           mo == StrToInt(Field(lay, value, "M"))
           dy == StrToInt(Field(lay, value, "D"))
       IN  /\ mo \in 1..12
           /\ dy \in 1..DaysIn(mo, yr)
           /\ StrToInt(Field(lay, value, "h")) < 24
           /\ StrToInt(Field(lay, value, "m")) < 60
           /\ StrToInt(Field(lay, value, "s")) < 60

\* the zero time.Time, which time.Parse returns beside a non-nil error
ZeroTime == [year |-> 1, month |-> 1]

\* time.Parse(lay, value), the calendar year and month of the result
Parse(lay, value) ==
    IF ParseOK(lay, value)
    THEN [year |-> StrToInt(Field(lay, value, "Y")),
          month |-> StrToInt(Field(lay, value, "M"))]
    ELSE ZeroTime

\* time.Unix(sec, 0) in the local zone, offset seconds east of UTC: the civil year
\* and month of the day that holds the instant
Unix(sec, offset) ==
    LET days == (sec + offset) \div 86400
        z    == days + 719468
        era  == z \div 146097
        doe  == z - era * 146097
        yoe  == (doe - doe \div 1460 + doe \div 36524 - doe \div 146096) \div 365
        doy  == doe - (365 * yoe + yoe \div 4 - yoe \div 100)
        mp   == (5 * doy + 2) \div 153
        mo   == IF mp < 10 THEN mp + 3 ELSE mp - 9
    IN  [year |-> yoe + era * 400 + (IF mo <= 2 THEN 1 ELSE 0), month |-> mo]

\* tm.Format("2006") and tm.Format("01")
FormatYear(tm) == Pad(tm.year, 4)

FormatMonth(tm) == Pad(tm.month, 2)

(* ------------------------------------------------------------------ *)
(* regexp: FindStringSubmatch for the program's patterns                *)
(* ------------------------------------------------------------------ *)

\* A pattern is written with "d" for \d and every other character literal.
MatchAt(pat, s, i) ==
    /\ i + Len(pat) - 1 <= Len(s)
    /\ \A k \in 1..Len(pat) :
          IF At(pat, k) = "d" THEN IsDigit(At(s, i + k - 1))
          ELSE At(s, i + k - 1) = At(pat, k)

\* the leftmost match of pat in s, "" when there is none (no pattern matches "")
FindString(pat, s) ==
    LET I == {i \in 1..Len(s) : MatchAt(pat, s, i)}
    IN  IF I = {} THEN ""
        ELSE LET i == CHOOSE i \in I : \A j \in I : i <= j
             IN  SubSeq(s, i, i + Len(pat) - 1)

\* `mmexport(1\d{9})`
WxPattern == "mmexport1ddddddddd"

\* regexTime: time regex to time layout.  A Go map: its keys are unordered.
regexTime ==
    { [regex |-> "dddddddd_dddddd", timeLayout |-> "YYYYMMDD_hhmmss"],
      [regex |-> "dddd-dd-dd dd.dd.dd", timeLayout |-> "YYYY-MM-DD hh.mm.ss"] }

(* ------------------------------------------------------------------ *)
(* state                                                                *)
(* ------------------------------------------------------------------ *)

VARIABLES
    rev,            \* the revision that runs: "main" (src/main.go) or "part" (src/unnamed/part_000)
    c,              \* Config, filled from the command line
    y,              \* configFile.ModelMap of revision "part" (nil until loaded)
    tz,             \* the local zone, seconds east of UTC
    now,            \* the wall clock, seconds after StartOfDay
    disk,           \* the files that exist: path -> content
    dirs,           \* the directories that exist below the working directory
    imageFileList,  \* what walk / getMediaFileList returns for c.Source
    idx,            \* position of mediaTool's loop in imageFileList
    pc,             \* where mediaTool stands
    checks,         \* per file, what its checkExist call tested, found and returned
    newPath,        \* newPath of the current file, after checkExist (and the Join)
    todoMap,        \* todoMap of mediaTool
    pending,        \* the keys processFiles' range loop has still to visit
    answers,        \* the confirmations answered so far, in order
    transfers,      \* the processOneFile calls so far
    logged,         \* the info lines logged by mediaTool
    handles,        \* the number of files the process holds open
    file,           \* input of the resolution harness
    first,          \* processImage(file), first call
    second,         \* processImage(file), second call
    chk             \* checkExist of the candidate

runVars == <<imageFileList, idx, pc, checks, newPath, todoMap, pending, answers,
             transfers, logged>>

envVars == <<rev, c, y, tz>>

harnessVars == <<file, first, second, chk>>

vars == <<rev, c, y, tz, now, disk, dirs, imageFileList, idx, pc, checks, newPath,
          todoMap, pending, answers, transfers, logged, handles, file, first, second,
          chk>>

(* ------------------------------------------------------------------ *)
(* file contents                                                        *)
(* ------------------------------------------------------------------ *)

Quote == "\""

\* tiff.Tag.String() of an ASCII tag: the value between double quotes
TagString(v) == Quote \o v \o Quote

\* What os.Open and exif.Decode find in a file: readable says whether it opens,
\* hasExif whether it decodes, hasModel / hasTime whether each tag is present, and
\* model / time hold the raw tag strings.
Content(readable, hasExif, hasModel, model, hasTime, time) ==
    [readable |-> readable, hasExif |-> hasExif, hasModel |-> hasModel,
     model |-> model, hasTime |-> hasTime, time |-> time]

Plain == Content(TRUE, FALSE, FALSE, "", FALSE, "")

Unreadable == Content(FALSE, FALSE, FALSE, "", FALSE, "")

GoodTime == TagString("2021:12:31 23:59:59")

BadTime == TagString("0000:00:00 00:00:00")

ExifKnown == Content(TRUE, TRUE, TRUE, TagString("2304FPN6DC"), TRUE, GoodTime)

ExifUnknown == Content(TRUE, TRUE, TRUE, TagString("Pixel7"), TRUE, GoodTime)

ExifBadTime == Content(TRUE, TRUE, TRUE, TagString("22021211RC"), TRUE, BadTime)

ExifNoModel == Content(TRUE, TRUE, FALSE, "", TRUE, GoodTime)

ExifNoTime == Content(TRUE, TRUE, TRUE, TagString("2304FPN6DC"), FALSE, "")

\* modelAliasMap of revision "main"; revision "part" reads the same pairs from the
\* model_map of its YAML file
modelAliasMap ==
    [k \in {"2304FPN6DC", "22021211RC"} |->
        IF k = "2304FPN6DC" THEN "Xiaomi13Ultra" ELSE "RedmiK40S"]

\* a Go map read: the zero value for a missing key (and for every key of a nil map)
MapGet(m, k) == IF k \in DOMAIN m THEN m[k] ELSE ""

NilMap == [k \in {} |-> ""]

defaultConfigPath == "config.yaml"

\* the content of a YAML file: whether yaml.Unmarshal accepts it, and its model_map
Yaml(valid, m) == [readable |-> TRUE, yaml |-> valid, model_map |-> m]

(* ------------------------------------------------------------------ *)
(* path resolution                                                      *)
(* ------------------------------------------------------------------ *)

getTagString(tag) == Trim(tag, Quote)

\* the alias readExif puts first in the path: main.go:321 reads the map and keeps
\* what it gets; part_000:400-403 falls back to the model when that is ""
ModelAlias(model) ==
    IF rev = "main" THEN MapGet(modelAliasMap, model)
    ELSE IF MapGet(y, model) = "" THEN model ELSE MapGet(y, model)

readExif(f) ==
    LET x == disk[f]
    IN  IF f \notin DOMAIN disk \/ ~x.readable THEN ""
        ELSE IF ~x.hasExif THEN ""
        ELSE IF ~x.hasModel THEN ""
        ELSE IF ~x.hasTime THEN ""
        ELSE LET tm == Parse(layout, getTagString(x.time))
             IN  Join(<<ModelAlias(getTagString(x.model)), FormatYear(tm),
                        FormatMonth(tm), Base(f)>>)

\* The file handles of one readExif call: os.Open's handle when the file opens, and
\* no Close on any path, early returns included (main.go:306-335,
\* part_000:384-417).
readExifHandles(f) ==
    [opened |-> IF f \in DOMAIN disk /\ disk[f].readable THEN 1 ELSE 0,
     closed |-> 0]

matchWxExport(filename) ==
    LET m == FindString(WxPattern, filename)
    IN  IF m = "" THEN ""
        ELSE LET timestampTime == Unix(StrToInt(SubSeq(m, 9, Len(m))), tz)
             IN  Join(<<FormatYear(timestampTime), FormatMonth(timestampTime),
                        Base(filename)>>)

\* what one entry of regexTime yields for the file when its regex matches
RegexPath(p, f) ==
    LET tm == Parse(p.timeLayout, FindString(p.regex, f))
    IN  Join(<<FormatYear(tm), FormatMonth(tm), Base(f)>>)

\* matchRegex ranges over a Go map, whose iteration order is not specified: every
\* entry whose regex matches can be the first one the loop meets
matchRegex(f) ==
    LET M == {p \in regexTime : FindString(p.regex, f) # ""}
    IN  IF M = {} THEN {""} ELSE {RegexPath(p, f) : p \in M}

\* processImage with the export pattern tried before the metadata
processImageWxFirst(f) ==
    IF matchWxExport(f) # "" THEN {matchWxExport(f)}
    ELSE IF readExif(f) # "" THEN {readExif(f)}
    ELSE matchRegex(f)

\* processImage: the paths it can return, "" standing for the error return
processImage(f) ==
    IF readExif(f) # "" THEN {readExif(f)}
    ELSE IF matchWxExport(f) # "" THEN {matchWxExport(f)}
    ELSE matchRegex(f)

(* ------------------------------------------------------------------ *)
(* conflict resolution                                                  *)
(* ------------------------------------------------------------------ *)

\* os.Stat(path) without error: a file or a directory is there
fileExists(path) == path \in DOMAIN disk \/ path \in dirs

\* getFileExtension(path, needDot) of part_000; main.go's has no needDot (FALSE)
getFileExtension(path, needDot) ==
    ToLower(IF needDot THEN Ext(path) ELSE TrimPrefix(Ext(path), "."))

StartOfDay == "20261101"

\* time.Now().Format("20060102150405")
FormatNow(t) ==
    StartOfDay \o Pad(t \div 3600, 2) \o Pad((t \div 60) % 60, 2) \o Pad(t % 60, 2)

\* generateNewFileName at time t: main.go:280-284 cuts filepath.Ext(filename),
\* part_000:352-358 cuts getFileExtension(filename, true)
generateNewFileName(filename, t) ==
    LET ext == IF rev = "main" THEN Ext(filename) ELSE getFileExtension(filename, TRUE)
    IN  TrimSuffix(filename, ext) \o "_new_" \o FormatNow(t) \o ext

\* checkExist with the no-skip test ahead of the overwrite test
checkExistNoSkipFirst(dest, t) ==
    IF fileExists(dest)
    THEN IF ~c.NoSkip THEN [path |-> "", err |-> TRUE]
         ELSE IF c.OverWrite THEN [path |-> dest, err |-> FALSE]
         ELSE [path |-> generateNewFileName(dest, t), err |-> FALSE]
    ELSE [path |-> dest, err |-> FALSE]

\* checkExist(dest) at time t: the returned path and whether the error is nil
checkExist(dest, t) ==
    IF fileExists(dest)
    THEN IF c.OverWrite THEN [path |-> dest, err |-> FALSE]
         ELSE IF ~c.NoSkip THEN [path |-> "", err |-> TRUE]
         ELSE [path |-> generateNewFileName(dest, t), err |-> FALSE]
    ELSE [path |-> dest, err |-> FALSE]

(* ------------------------------------------------------------------ *)
(* the organize run: bounds and initial states                          *)
(* ------------------------------------------------------------------ *)

\* at most this many files lie under the source directory
MaxFiles == 2

\* the clock is read at most this many seconds after the start
MaxClock == 1

TZOffsets == {0, 28800}

picTypes == {"jpg", "jpeg", "png", "gif", "bmp"}

\* The files a source tree may hold, in the lexical order filepath.WalkDir visits
\* them, each with its content.
WalkOrder ==
    << "in/a/IMG_20230405_101112.jpg", "in/b/IMG_20230405_101112.jpg",
       "in/c/P1.JPG", "in/d/x.png" >>

SourceContent(f) == IF f = "in/c/P1.JPG" THEN ExifKnown ELSE Plain

\* files that may already lie below the working directory before the run
PreExisting ==
    { "out/2023/04/IMG_20230405_101112.jpg", "2023/04/IMG_20230405_101112.jpg" }

Range(q) == {q[i] : i \in 1..Len(q)}

\* every ancestor directory of path p, p's own directory included
Ancestors(p) == {SubSeq(p, 1, i - 1) : i \in {j \in 2..Len(p) : At(p, j) = "/"}}

Flags == [NoSkip : BOOLEAN, OverWrite : BOOLEAN, Yes : BOOLEAN, Together : BOOLEAN,
          Mode : {"copy", "move"}, Destination : {"out", "."}]

\* Config after the command line is parsed.  The file command of revision "part"
\* declares no yes and no together flag (part_000:80-126): both stay false there.
Configs(r) ==
    { [Source |-> "in", Destination |-> f.Destination, Mode |-> f.Mode,
       NoSkip |-> f.NoSkip, OverWrite |-> f.OverWrite, Yes |-> f.Yes,
       Together |-> f.Together, ConfigPath |-> ""] :
      f \in {g \in Flags : r = "part" => ~g.Yes /\ ~g.Together} }

\* what may lie at the config path: nothing, a well-formed file or a malformed one
ConfigFiles ==
    { NilMap,
      [p \in {defaultConfigPath} |-> Yaml(TRUE, modelAliasMap)],
      [p \in {defaultConfigPath} |-> Yaml(FALSE, NilMap)] }

EnvInit ==
    /\ rev \in {"main", "part"}
    /\ c \in Configs(rev)
    /\ y = NilMap
    /\ now = 0

HarnessIdle ==
    /\ file = ""
    /\ first = ""
    /\ second = ""
    /\ chk = [path |-> "", err |-> FALSE]

\* No file of WalkOrder carries an export code, so the zone plays no part in a run:
\* it is UTC here, and the resolution harness ranges over TZOffsets.
Init ==
    /\ EnvInit
    /\ tz = 0
    /\ \E S \in SUBSET Range(WalkOrder), P \in SUBSET PreExisting, cf \in ConfigFiles :
          /\ Cardinality(S) <= MaxFiles
          /\ rev = "main" => cf = NilMap
          /\ disk = [f \in S |-> SourceContent(f)] @@ [f \in P |-> Plain] @@ cf
          /\ \E D \in SUBSET {"in"} :
                dirs = D \cup UNION {Ancestors(f) : f \in S \cup P}
    /\ imageFileList = <<>>
    /\ idx = 1
    /\ pc = "start"
    /\ checks = NilMap
    /\ newPath = ""
    /\ todoMap = NilMap
    /\ pending = {}
    /\ answers = <<>>
    /\ transfers = {}
    /\ logged = <<>>
    /\ handles = 0
    /\ HarnessIdle

(* ------------------------------------------------------------------ *)
(* the organize run: mediaTool                                          *)
(* ------------------------------------------------------------------ *)

\* os.Stat(path) on a directory path: "." is the working directory
DirExists(d) == d = "." \/ fileExists(d)

\* walk / getMediaFileList: the files under dir whose lower-cased extension is a
\* picture type, in the order of the walk
walk(dir) ==
    SelectSeq(WalkOrder,
              LAMBDA f : /\ f \in DOMAIN disk
                         /\ HasPrefix(f, dir \o "/")
                         /\ getFileExtension(f, FALSE) \in picTypes)

\* What can go wrong in processOneFile, as the operating system decides: "ok"
\* nothing, "mkdir" os.MkdirAll, "open" os.Open of the source, "create" os.Create,
\* "copy" io.Copy, "sync" File.Sync, "rename" os.Rename.
IOOutcomes == {"ok", "mkdir", "open", "create", "copy", "sync", "rename"}

Truncated == Content(TRUE, FALSE, FALSE, "", FALSE, "")

\* processOneFile(source, dest) under outcome io: the disk and the directories it
\* leaves and whether it returns an error
processOneFile(source, dest, io) ==
    LET parentDir == Dir(dest)
        made      == IF DirExists(parentDir) THEN dirs
                     ELSE dirs \cup Ancestors(dest)
        same      == [disk |-> disk, dirs |-> dirs, err |-> TRUE]
    IN  IF ~DirExists(parentDir) /\ io = "mkdir" THEN same
        ELSE IF c.Mode = "copy"
        THEN IF source \notin DOMAIN disk \/ ~disk[source].readable \/ io = "open"
             THEN [disk |-> disk, dirs |-> made, err |-> TRUE]
             ELSE IF dest \in dirs \/ io = "create"
             THEN [disk |-> disk, dirs |-> made, err |-> TRUE]
             ELSE IF io = "copy"
             THEN [disk |-> (dest :> Truncated) @@ disk, dirs |-> made, err |-> TRUE]
             ELSE [disk |-> (dest :> disk[source]) @@ disk, dirs |-> made,
                   err |-> (io = "sync")]
        ELSE IF source \notin DOMAIN disk \/ dest \in dirs \/ io = "rename"
             THEN [disk |-> disk, dirs |-> made, err |-> TRUE]
             ELSE [disk |-> [f \in (DOMAIN disk \cup {dest}) \ {source} |->
                                IF f = dest THEN disk[source] ELSE disk[f]],
                   dirs |-> made, err |-> FALSE]

\* The file handles of one processOneFile call.  moveFile opens none.  copyFile
\* opens the source, then the destination, and defers the Close of each right
\* after it opened: whatever fails later, what was opened is closed on return
\* (main.go:438-462).
processOneFileHandles(source, dest, io) ==
    LET n == IF ~DirExists(Dir(dest)) /\ io = "mkdir" THEN 0
             ELSE IF c.Mode # "copy" THEN 0
             ELSE IF source \notin DOMAIN disk \/ ~disk[source].readable \/ io = "open"
             THEN 0
             ELSE IF dest \in dirs \/ io = "create" THEN 1
             ELSE 2
    IN  [opened |-> n, closed |-> n]

\* the outcomes that differ for the call at hand
Applicable(dest) ==
    {"ok"} \cup (IF DirExists(Dir(dest)) THEN {} ELSE {"mkdir"})
           \cup (IF c.Mode = "copy" THEN {"open", "create", "copy", "sync"}
                 ELSE {"rename"})

\* the record of one processOneFile call: what it was given, whether a file lay at
\* dest before it, and whether it returned an error
Transfer(source, dest, io) ==
    [src |-> source, dst |-> dest, existed |-> dest \in DOMAIN disk,
     err |-> processOneFile(source, dest, io).err]

\* After with the aggregate confirmation left out: the plan is executed unasked
AfterUnasked(i, todo) ==
    IF i <= Len(imageFileList) THEN "loop"
    ELSE IF ~c.Together THEN "returned"
    ELSE IF DOMAIN todo = {} THEN "returned" ELSE "batch"

\* After with a return where the interactive loop continues
AfterReturning(i, todo) ==
    IF ~c.Together THEN "returned"
    ELSE IF i <= Len(imageFileList) THEN "loop"
    ELSE IF ~c.Yes THEN "askAll"
    ELSE IF DOMAIN todo = {} THEN "returned" ELSE "batch"

\* Where mediaTool stands once the loop is at position i with todo as its todoMap:
\* in the loop, or past it (main.go:177-189, part_000:248-260).
After(i, todo) ==
    IF i <= Len(imageFileList) THEN "loop"
    ELSE IF ~c.Together THEN "returned"
    ELSE IF ~c.Yes THEN "askAll"
    ELSE IF DOMAIN todo = {} THEN "returned" ELSE "batch"

\* the log once mediaTool moves to position p: "done" is written on the way to the
\* final return nil
LogAt(p) == IF p = "returned" THEN Append(logged, "done") ELSE logged

\* loadConfigFile of revision "part": "panic" when yaml.Unmarshal fails, "error"
\* when the file cannot be read, else "ok" with the map it holds
loadConfigFile ==
    LET path == IF c.ConfigPath = "" THEN defaultConfigPath ELSE c.ConfigPath
    IN  IF path \notin DOMAIN disk THEN [res |-> "error", y |-> y]
        ELSE IF ~disk[path].yaml THEN [res |-> "panic", y |-> y]
        ELSE [res |-> "ok", y |-> disk[path].model_map]

\* mediaTool, from its entry to the head of the loop.  Revision "part" calls
\* loadConfigFile() first and drops what it returns (part_000:212).
Start ==
    /\ pc = "start"
    /\ LET cfg == IF rev = "part" THEN loadConfigFile ELSE [res |-> "ok", y |-> y]
           lst == walk(c.Source)
       IN  /\ c' = IF rev = "part" /\ c.ConfigPath = ""
                   THEN [c EXCEPT !.ConfigPath = defaultConfigPath] ELSE c
           /\ y' = cfg.y
           /\ IF cfg.res = "panic"
              THEN /\ pc' = "panic"
                   /\ logged' = Append(logged, "load config file")
                   /\ UNCHANGED imageFileList
              ELSE IF ~DirExists(c.Source)
              THEN /\ pc' = "failed"
                   /\ logged' = IF rev = "part"
                                THEN Append(logged, "load config file") ELSE logged
                   /\ UNCHANGED imageFileList
              ELSE /\ imageFileList' = lst
                   /\ pc' = IF Len(lst) >= 1 THEN "loop"
                            ELSE IF ~c.Together THEN "returned"
                            ELSE IF ~c.Yes THEN "askAll" ELSE "returned"
                   /\ logged' = (IF rev = "part" THEN <<"load config file">> ELSE <<>>)
                                \o (IF pc' = "returned" THEN <<"done">> ELSE <<>>)
    /\ UNCHANGED <<rev, tz, now, disk, dirs, idx, checks, newPath, todoMap, pending,
                   answers, transfers, harnessVars>>
    /\ UNCHANGED handles

\* the path mediaTool hands on after checkExist returned path p without error:
\* main.go joins the destination only on the way into todoMap (main.go:162) and calls
\* processOneFile with p itself (main.go:169); part_000:228-230 joins it for both
PathFor(p) ==
    IF rev = "main"
    THEN IF c.Together THEN Join(<<c.Destination, p>>) ELSE p
    ELSE IF p # "" THEN Join(<<c.Destination, p>>) ELSE p

\* One pass of the loop body up to the confirmation (main.go:149-168,
\* part_000:219-240): processImage, checkExist, then the entry in todoMap or the
\* prompt.  np is what processImage returns and t the clock that
\* generateNewFileName reads.
Resolve ==
    /\ pc = "loop"
    /\ idx <= Len(imageFileList)
    /\ LET f == imageFileList[idx]
       IN  \E np \in processImage(f) :
           \E t \in (IF np # "" /\ fileExists(np) /\ ~c.OverWrite /\ c.NoSkip
                     THEN {u \in now..MaxClock : u >= now} ELSE {now}) :
              LET ck == checkExist(np, t)
              IN  /\ now' = t
                  /\ IF np = ""
                     THEN /\ pc' = After(idx + 1, todoMap)
                          /\ idx' = idx + 1
                          /\ UNCHANGED <<checks, newPath, todoMap>>
                     ELSE /\ checks' = (f :> [tested |-> np, found |-> fileExists(np),
                                              path |-> ck.path, err |-> ck.err])
                                       @@ checks
                          /\ IF ck.err
                             THEN /\ pc' = After(idx + 1, todoMap)
                                  /\ idx' = idx + 1
                                  /\ UNCHANGED <<newPath, todoMap>>
                             ELSE IF c.Together
                             THEN /\ todoMap' = (f :> PathFor(ck.path)) @@ todoMap
                                  /\ pc' = After(idx + 1, todoMap')
                                  /\ idx' = idx + 1
                                  /\ newPath' = PathFor(ck.path)
                             ELSE /\ newPath' = PathFor(ck.path)
                                  /\ pc' = IF c.Yes THEN "transfer" ELSE "ask"
                                  /\ UNCHANGED <<idx, todoMap>>
    /\ pending' = IF pc' = "batch" THEN DOMAIN todoMap' ELSE pending
    /\ logged' = LogAt(pc')
    /\ UNCHANGED <<envVars, disk, dirs, imageFileList, answers, transfers, harnessVars>>
    /\ handles' = handles + readExifHandles(imageFileList[idx]).opened
                         - readExifHandles(imageFileList[idx]).closed

\* what the user may type at a prompt
Responses == {"y\n", "YES\n", "n\n", " No \n", "maybe\n"}

Normalize(response) == ToLower(TrimSpace(response))

IsYes(response) == Normalize(response) \in {"y", "yes"}

IsNo(response) == Normalize(response) \in {"n", "no"}

\* askForConfirmation for the current file, answered: yes goes on to
\* processOneFile, no to the next file (main.go:164-168)
Ask ==
    /\ pc = "ask"
    /\ \E r \in Responses :
          /\ IsYes(r) \/ IsNo(r)
          /\ answers' = Append(answers, [target |-> imageFileList[idx], yes |-> IsYes(r)])
          /\ IF IsYes(r)
             THEN /\ pc' = "transfer"
                  /\ UNCHANGED idx
             ELSE /\ pc' = After(idx + 1, todoMap)
                  /\ idx' = idx + 1
    /\ logged' = LogAt(pc')
    /\ UNCHANGED <<envVars, now, disk, dirs, imageFileList, checks, newPath, todoMap,
                   pending, transfers, harnessVars>>
    /\ UNCHANGED handles

\* askForConfirmation for the whole plan, answered: no returns nil at once
\* (main.go:180-182)
AskAll ==
    /\ pc = "askAll"
    /\ \E r \in Responses :
          /\ IsYes(r) \/ IsNo(r)
          /\ answers' = Append(answers, [target |-> "all", yes |-> IsYes(r)])
          /\ IF IsYes(r)
             THEN /\ pc' = IF DOMAIN todoMap = {} THEN "returned" ELSE "batch"
                  /\ logged' = LogAt(pc')
                  /\ pending' = DOMAIN todoMap
             ELSE /\ pc' = "declined"
                  /\ UNCHANGED <<logged, pending>>
    /\ UNCHANGED <<envVars, now, disk, dirs, imageFileList, idx, checks, newPath,
                   todoMap, transfers, harnessVars>>
    /\ UNCHANGED handles

\* askForConfirmation reads something that is neither yes nor no and asks again
\* (main.go:195-210)
AskAgain ==
    /\ pc \in {"ask", "askAll"}
    /\ \E r \in Responses : ~IsYes(r) /\ ~IsNo(r)
    /\ UNCHANGED vars

\* askForConfirmation's read of standard input fails: log.Fatal ends the process
\* (main.go:198-201)
AskFatal ==
    /\ pc \in {"ask", "askAll"}
    /\ pc' = "fatal"
    /\ UNCHANGED <<envVars, now, disk, dirs, imageFileList, idx, checks, newPath,
                   todoMap, pending, answers, transfers, logged, harnessVars>>
    /\ UNCHANGED handles

\* processOneFile for the current file of the interactive loop (main.go:169-173)
TransferOne ==
    /\ pc = "transfer"
    /\ LET f == imageFileList[idx]
       IN  \E io \in Applicable(newPath) :
              /\ disk' = processOneFile(f, newPath, io).disk
              /\ dirs' = processOneFile(f, newPath, io).dirs
              /\ transfers' = transfers \cup {Transfer(f, newPath, io)}
              /\ handles' = handles + processOneFileHandles(f, newPath, io).opened
                                     - processOneFileHandles(f, newPath, io).closed
    /\ idx' = idx + 1
    /\ pc' = After(idx + 1, todoMap)
    /\ logged' = LogAt(pc')
    /\ UNCHANGED <<envVars, now, imageFileList, checks, newPath, todoMap, pending,
                   answers, harnessVars>>

\* one turn of processFiles' loop over todoMap, in the order the Go map yields
\* (main.go:213-221)
Batch ==
    /\ pc = "batch"
    /\ \E s \in pending :
       \E io \in Applicable(todoMap[s]) :
          /\ disk' = processOneFile(s, todoMap[s], io).disk
          /\ dirs' = processOneFile(s, todoMap[s], io).dirs
          /\ transfers' = transfers \cup {Transfer(s, todoMap[s], io)}
          /\ pending' = pending \ {s}
          /\ handles' = handles + processOneFileHandles(s, todoMap[s], io).opened
                                 - processOneFileHandles(s, todoMap[s], io).closed
    /\ pc' = IF pending' = {} THEN "returned" ELSE "batch"
    /\ logged' = LogAt(pc')
    /\ UNCHANGED <<envVars, now, imageFileList, idx, checks, newPath, todoMap,
                   answers, harnessVars>>

\* A garbage collection cycle runs the finalizer of every os.File value the program
\* no longer refers to and closes their handles: some time after readExif returned,
\* or never.  The handles are counted between two files and at the end of the run,
\* so a cycle is placed there, wherever it ran since the last count.
Finalize ==
    /\ pc \in {"loop", "returned", "declined", "h1", "h2", "h3"}
    /\ handles > 0
    /\ handles' = 0
    /\ UNCHANGED <<envVars, now, disk, dirs, runVars, harnessVars>>

Next ==
    \/ Finalize
    \/ Start
    \/ Resolve
    \/ Ask
    \/ AskAll
    \/ AskAgain
    \/ AskFatal
    \/ TransferOne
    \/ Batch

Spec == Init /\ [][Next]_vars

(* ------------------------------------------------------------------ *)
(* the resolution harness: processImage and checkExist on drawn inputs   *)
(* ------------------------------------------------------------------ *)

\* the contents a file handed to processImage may have
Contents ==
    { Plain, Unreadable, ExifKnown, ExifUnknown, ExifBadTime, ExifNoModel,
      ExifNoTime }

\* the paths handed to processImage: names with one, both or neither of the
\* timestamp patterns, with an export code, with a timestamp that does not parse,
\* with an upper-case extension and with none
Names ==
    { "in/IMG_20230405_101112.jpg",
      "in/2023-04-05 10.11.12.PNG",
      "in/mmexport1672531199000.jpg",
      "in/mmexport1680000000_20190101_000000.jpeg",
      "in/20221231_235959 2023-01-01 00.00.01.jpg",
      "in/IMG_20231399_101112.jpg",
      "in/scan.Jpg",
      "in/VID_20200229_120000" }

HarnessInit ==
    /\ EnvInit
    /\ c.Mode = "copy" /\ c.Destination = "out" /\ ~c.Yes /\ ~c.Together
    /\ tz \in TZOffsets
    /\ file \in Names
    /\ \E x \in Contents : disk = [f \in {file} |-> x]
    /\ dirs = {"in"}
    /\ first = ""
    /\ second = ""
    /\ chk = [path |-> "", err |-> FALSE]
    /\ imageFileList = <<>>
    /\ idx = 1
    /\ pc = "h0"
    /\ checks = NilMap
    /\ newPath = ""
    /\ todoMap = NilMap
    /\ pending = {}
    /\ answers = <<>>
    /\ transfers = {}
    /\ logged = <<>>
    /\ handles = 0

\* revision "part" has loaded its alias file, or has not
LoadAliases ==
    /\ pc = "h0"
    /\ rev = "part"
    /\ y = NilMap
    /\ y' = modelAliasMap
    /\ UNCHANGED <<rev, c, tz, now, disk, dirs, runVars, harnessVars>>
    /\ UNCHANGED handles

ResolveFirst ==
    /\ pc = "h0"
    /\ first' \in processImage(file)
    /\ pc' = "h1"
    /\ UNCHANGED <<envVars, now, disk, dirs, imageFileList, idx, checks, newPath,
                   todoMap, pending, answers, transfers, logged, file, second, chk>>
    /\ handles' = handles + readExifHandles(file).opened - readExifHandles(file).closed

ResolveSecond ==
    /\ pc = "h1"
    /\ second' \in processImage(file)
    /\ pc' = "h2"
    /\ UNCHANGED <<envVars, now, disk, dirs, imageFileList, idx, checks, newPath,
                   todoMap, pending, answers, transfers, logged, file, first, chk>>
    /\ handles' = handles + readExifHandles(file).opened - readExifHandles(file).closed

\* a file already lies at the candidate path
Occupy ==
    /\ pc = "h2"
    /\ first # ""
    /\ first \notin DOMAIN disk
    /\ disk' = (first :> Plain) @@ disk
    /\ dirs' = dirs \cup Ancestors(first)
    /\ UNCHANGED <<envVars, now, runVars, harnessVars>>
    /\ UNCHANGED handles

Check ==
    /\ pc = "h2"
    /\ first # ""
    /\ \E t \in {u \in now..MaxClock : u >= now} :
          /\ now' = t
          /\ chk' = checkExist(first, t)
    /\ pc' = "h3"
    /\ UNCHANGED <<envVars, disk, dirs, imageFileList, idx, checks, newPath,
                   todoMap, pending, answers, transfers, logged, file, first, second>>
    /\ UNCHANGED handles

HarnessNext ==
    \/ Finalize
    \/ LoadAliases
    \/ ResolveFirst
    \/ ResolveSecond
    \/ Occupy
    \/ Check

SpecResolve == HarnessInit /\ [][HarnessNext]_vars

(* ------------------------------------------------------------------ *)
(* claims                                                               *)
(* ------------------------------------------------------------------ *)

\* C1: the conflict check decides on the path the transfer writes to, so a transfer
\* that replaces a file lying at the path it writes, with overwrite unset, was not
\* let through as Proceed: checkExist had found its candidate present (and, as the
\* file was transferred, had renamed it).
C1_ExistingNeverProceed ==
    \A e \in transfers :
        (e.existed /\ ~e.err /\ ~c.OverWrite) => checks[e.src].found

\* C2: the conflict matrix, for every checkExist call of a run: candidate absent,
\* returned unchanged; present with overwrite, returned unchanged whatever no-skip
\* is; present without overwrite and without no-skip, an error and no path, and the
\* file is neither transferred nor planned; present without overwrite and with
\* no-skip, another path and no error.
C2_ConflictMatrix ==
    \A f \in DOMAIN checks :
        LET k == checks[f]
        IN  /\ ~k.found => (k.path = k.tested /\ ~k.err)
            /\ (k.found /\ c.OverWrite) => (k.path = k.tested /\ ~k.err)
            /\ (k.found /\ ~c.OverWrite /\ ~c.NoSkip) =>
                  /\ k.err
                  /\ k.path = ""
                  /\ f \notin DOMAIN todoMap
                  /\ \A e \in transfers : e.src # f
                  /\ pc \in {"ask", "transfer"} => imageFileList[idx] # f
            /\ (k.found /\ ~c.OverWrite /\ c.NoSkip) =>
                  (~k.err /\ k.path # "" /\ k.path # k.tested)

\* C2 witness: one run has met each of the matrix's outcomes that its flags allow:
\* a candidate that was absent, and one that was present and was skipped
C2_Witness ==
    /\ \E f \in DOMAIN checks : checks[f].found /\ checks[f].err
    /\ \E f \in DOMAIN checks : ~checks[f].found
    /\ pc = "returned"

C2_WitnessRename ==
    \E f \in DOMAIN checks :
        checks[f].found /\ ~checks[f].err /\ ~c.OverWrite /\ c.NoSkip

\* the file opens, decodes, and carries both the Model and the DateTimeOriginal tag
MetaOK(f) ==
    /\ f \in DOMAIN disk
    /\ disk[f].readable /\ disk[f].hasExif /\ disk[f].hasModel /\ disk[f].hasTime

WxOK(f) == FindString(WxPattern, f) # ""

RegexOK(f) == \E p \in regexTime : FindString(p.regex, f) # ""

\* p is year/month/basename: a four-digit and a two-digit directory, nothing before
DateShape(p) == Len(Dir(p)) = 7 /\ MatchAt("dddd/dd", Dir(p), 1)

\* p is alias/year/month/basename, or year/month/basename when the alias is empty
MetaShape(p) ==
    \/ DateShape(p)
    \/ /\ Len(Dir(p)) > 8
       /\ MatchAt("/dddd/dd", Dir(p), Len(Dir(p)) - 7)

\* C3: processImage applies its strategies in strict priority order, the first that
\* yields a path wins: the metadata path when the file carries both tags, else the
\* export-pattern path when the name holds an export code, else a timestamp-in-name
\* path when a pattern matches, and the error only when all three fail; the
\* basename of every result is that of the file.
C3_StrategyOrder ==
    pc \in {"h1", "h2", "h3"} =>
        /\ MetaOK(file) => (first = readExif(file) /\ MetaShape(first))
        /\ (~MetaOK(file) /\ WxOK(file)) =>
              (first = matchWxExport(file) /\ DateShape(first))
        /\ (~MetaOK(file) /\ ~WxOK(file) /\ RegexOK(file)) =>
              (first \in matchRegex(file) /\ DateShape(first))
        /\ (~MetaOK(file) /\ ~WxOK(file) /\ ~RegexOK(file)) => first = ""
        /\ first # "" => Base(first) = Base(file)

\* C3 witness: a file for which all three strategies succeed has been resolved, to
\* its metadata path
C3_Witness ==
    /\ pc = "h1"
    /\ MetaOK(file) /\ WxOK(file) /\ RegexOK(file)
    /\ first = readExif(file)
    /\ first # matchWxExport(file)

\* the path's year and month directories are those of the zero time
ZeroTimePath(p) ==
    HasSuffix(Dir(p), FormatYear(ZeroTime) \o "/" \o FormatMonth(ZeroTime))

\* C5: a timestamp that does not parse counts as a non-match, so no resolved
\* destination carries the year and month of the zero time (0001/01).
C5_NoZeroTimePath ==
    pc \in {"h1", "h2", "h3"} => ~ZeroTimePath(first)

\* C6: on Rename the final path is the candidate's stem, "_new_", a 14-digit
\* timestamp and the candidate's extension as it was, for every existing candidate.
C6_RenameKeepsExtension ==
    (pc = "h3" /\ fileExists(first) /\ ~c.OverWrite /\ c.NoSkip) =>
        /\ Len(FormatNow(now)) = 14
        /\ \A i \in 1..14 : IsDigit(At(FormatNow(now), i))
        /\ chk.path = SubSeq(first, 1, Len(first) - Len(Ext(first)))
                      \o "_new_" \o FormatNow(now) \o Ext(first)

\* C7: a device identifier in the alias map resolves to its alias and any other to
\* itself, so the metadata path always starts with a non-empty alias segment.
C7_AliasTotal ==
    (pc \in {"h1", "h2", "h3"} /\ MetaOK(file)) =>
        LET id    == getTagString(disk[file].model)
            m     == IF rev = "main" THEN modelAliasMap ELSE y
            alias == IF id \in DOMAIN m THEN m[id] ELSE id
            tm    == Parse(layout, getTagString(disk[file].time))
        IN  /\ alias # ""
            /\ first = alias \o "/" \o FormatYear(tm) \o "/" \o FormatMonth(tm)
                       \o "/" \o Base(file)

\* C9: resolving the same path twice, with the same content and configuration,
\* yields the same candidate destination.
C9_Deterministic ==
    pc \in {"h2", "h3"} => first = second

\* the run is over: mediaTool returned nil after its loop ("returned") or from the
\* declined aggregate confirmation ("declined")
Returned == pc \in {"returned", "declined"}

Confirmed(target) == \E i \in 1..Len(answers) : answers[i] = [target |-> target, yes |-> TRUE]

Declined(target) == \E i \in 1..Len(answers) : answers[i] = [target |-> target, yes |-> FALSE]

\* C4: confirmation precedes transfer.  Interactive: a file is handed to
\* processOneFile only after its own prompt was answered yes, unless Yes is set, and
\* never after it was answered no.  Batch: nothing is transferred before the loop
\* has passed every file and the one aggregate prompt was answered yes (or Yes is
\* set), per-file prompts are not asked, and after a no nothing is transferred.
C4_ConfirmBeforeTransfer ==
    /\ (~c.Together /\ ~c.Yes) =>
          /\ pc = "transfer" => Confirmed(imageFileList[idx])
          /\ \A e \in transfers : Confirmed(e.src) /\ ~Declined(e.src)
          /\ ~Confirmed("all") /\ ~Declined("all")
    /\ c.Together =>
          /\ pc # "transfer"
          /\ (transfers # {} \/ pc = "batch") =>
                /\ idx > Len(imageFileList)
                /\ \A e \in transfers : e.src \in DOMAIN todoMap /\ e.dst = todoMap[e.src]
                /\ c.Yes \/ (answers = <<[target |-> "all", yes |-> TRUE]>>)
          /\ Declined("all") => (transfers = {} /\ pc \in {"declined", "fatal"})
          /\ Len(answers) <= 1
          /\ \A i \in 1..Len(answers) : answers[i].target = "all"
    /\ c.Yes => answers = <<>>

\* C4 witness: a batch run has transferred its whole plan of two files after the
\* aggregate confirmation
C4_Witness ==
    /\ c.Together /\ ~c.Yes
    /\ Cardinality(transfers) = 2
    /\ Confirmed("all")
    /\ pc = "returned"

\* C4 second case: an interactive run declined one file and transferred another
C4_WitnessInteractive ==
    /\ ~c.Together /\ ~c.Yes
    /\ \E i \in 1..Len(answers) : ~answers[i].yes
    /\ \E e \in transfers : ~e.err

\* C8 as claimed: whatever happens to the single files, mediaTool's return follows
\* the processing of every file and the "done" line.
C8_AlwaysDone ==
    Returned =>
        /\ idx > Len(imageFileList)
        /\ Len(logged) > 0 /\ logged[Len(logged)] = "done"

\* C8 as amended: no per-file outcome ends the run.  mediaTool returns after its
\* loop only when the loop has passed every file and, in batch mode, processFiles
\* has visited every entry of the plan, and it then has logged "done" as its last
\* line; the one return without "done" is the declined aggregate confirmation of
\* batch mode, which transfers nothing.  Until then the run stands at a file of the
\* list or at an entry of the plan still to visit, so it is never stuck.
C8_DoneUnlessDeclined ==
    /\ pc = "returned" =>
          /\ idx > Len(imageFileList)
          /\ Len(logged) > 0 /\ logged[Len(logged)] = "done"
          /\ c.Together => \A s \in DOMAIN todoMap : \E e \in transfers : e.src = s
    /\ pc = "declined" =>
          /\ c.Together /\ ~c.Yes /\ Declined("all")
          /\ idx > Len(imageFileList)
          /\ transfers = {}
    /\ pc \in {"loop", "ask", "transfer", "batch", "askAll"} =>
          (Len(logged) = 0 \/ logged[Len(logged)] # "done")
    /\ pc \in {"loop", "ask", "transfer"} => idx <= Len(imageFileList)
    /\ pc = "batch" => (pending # {} /\ pending \subseteq DOMAIN todoMap)

\* C8 witness: a run of two files, the first of which failed (skipped on conflict,
\* unresolved, declined or not transferred) has ended with "done"
C8_Witness ==
    /\ pc = "returned"
    /\ Len(imageFileList) = 2
    /\ \/ \E f \in DOMAIN checks : checks[f].err
       \/ \E e \in transfers : e.err
       \/ \E f \in Range(imageFileList) : Declined(f)
       \/ \E f \in Range(imageFileList) : f \notin DOMAIN checks
    /\ logged[Len(logged)] = "done"

\* C10: when the alias file cannot be read the run aborts before any file is
\* touched: nothing is resolved, nothing is transferred.
C10_UnreadableConfigAborts ==
    (rev = "part" /\ pc \notin {"start", "h0", "h1", "h2", "h3"}
                  /\ c.ConfigPath \notin DOMAIN disk) =>
        /\ DOMAIN checks = {}
        /\ transfers = {}
        /\ idx = 1


\* C11: with overwrite unset, no transfer of a run replaces what an earlier transfer of
\* the same run placed: no two distinct sources are planned with the same final
\* destination, and the successful transfers of the run wrote to as many distinct
\* destinations as there are successful transfers.
C11_NoSharedDestination ==
    ~c.OverWrite =>
        /\ \A s1, s2 \in DOMAIN todoMap :
               s1 # s2 => todoMap[s1] # todoMap[s2]
        /\ LET done == {e \in transfers : ~e.err}
           IN  Cardinality({e.dst : e \in done}) = Cardinality(done)

\* C12: every state of the run lies between two operations (no action stops inside
\* readExif or copyFile), and there no file handle is open.
C12_NoOpenHandles ==
    handles = 0

====
